---- MODULE Spec2Model ----
(***************************************************************************)
(* Model of the cosicorr command line (scripts/cosicorr.py): the three     *)
(* correlation entry points correlate_func, batch_correlate_func and       *)
(* multiband_correlate_func, and the Correlation Engine they call          *)
(* (geoCosiCorr3D.geoImageCorrelation.correlate.Correlate), the latter     *)
(* taken from the design document because its code is not part of the      *)
(* script.                                                                 *)
(*                                                                         *)
(* Conventions: Python None, the empty list and the empty string are all   *)
(* falsy and are modelled by the empty sequence << >> (lists) or ""        *)
(* (strings). Floating point thresholds are modelled in hundredths         *)
(* (mask_th 0.95 is 95).                                                   *)
(***************************************************************************)
EXTENDS Integers, Sequences, FiniteSets, TLC

VARIABLES
    cmd,        \* the sub-command argparse dispatched to (args.func)
    args,       \* the argparse Namespace handed to the handler
    pc,         \* position of the handler: start, serial, all, bands, done, error
    work,       \* the tuples the handler's for loop iterates over
    i,          \* 1-based position of the for loop in work
    calls,      \* the correlate_func invocations made so far, in order
    raised,     \* the exception that ended the handler, if any
    \* ---- one Correlation Engine call, followed cell by cell ----
    epc,        \* engine position: idle, forked, returned
    failing,    \* the grid cells whose evaluation fails (bad window, flat patch)
    assigned,   \* the partition: per worker, the grid cells it evaluates
    evaluated,  \* per worker: the cells it has evaluated so far
    joined,     \* the workers that have joined
    field,      \* the pre-sized output slots, one per grid cell
    writer,     \* per slot: the workers that wrote it
    peeked,     \* per worker: the output slots it has read
    returned    \* the Displacement Field handed back, once the call returns

cliVars == <<cmd, args, pc, work, i, calls, raised>>
engineVars == <<epc, failing, assigned, evaluated, joined, field, writer, peeked, returned>>
vars == <<cmd, args, pc, work, i, calls, raised,
          epc, failing, assigned, evaluated, joined, field, writer, peeked, returned>>

----------------------------------------------------------------------------
\* Bounds of the model

\* most files a glob list resolves to
MaxImages == 2
\* longest --base_bands / --target_bands list
MaxBandList == 2
\* most bands of the multiband input raster
MaxRasterBands == 3
\* grid centres of the engine call that is followed cell by cell
NumCells == 4
\* workers the grid index range is partitioned across
NumWorkers == 2

----------------------------------------------------------------------------
\* Program constants

\* C.CORR_METHODS.FREQUENCY_CORR.value and C.CORR_METHODS.SPATIAL_CORR.value
FREQUENCY_CORR == "frequency"
SPATIAL_CORR == "spatial"
CORR_METHODS == {FREQUENCY_CORR, SPATIAL_CORR}

\* argparse defaults of the correlation sub-commands
DefaultWindowSize == <<64, 64, 64, 64>>
DefaultStep == <<8, 8>>
DefaultMaskTh == 95
DefaultNbIters == 4
DefaultBand == 1

\* os.getcwd()
Cwd == "cwd"
\* the paths os.path.isdir answers True for
Directories == {Cwd, "out_dir"}

isdir(path) == path \in Directories

----------------------------------------------------------------------------
\* Small helpers

Min(a, b) == IF a <= b THEN a ELSE b

SeqsUpTo(S, n) == UNION {[1..k -> S] : k \in 0..n}

NoError == [type |-> "none", detail |-> << >>]

----------------------------------------------------------------------------
\* Inputs: what argparse and the file system can hand to the handlers

ImagePaths == {"a.tif", "b.tif"}

\* --base_bands / --target_bands: absent (None), or nargs='+' integers; the
\* lists differ in length and, position by position, in the band they name
BandList(n, first) == [k \in 1..n |-> IF (k % 2) = 1 THEN first ELSE 3 - first]
BaseBandLists == {BandList(n, 2) : n \in 0..MaxBandList}
TargetBandLists == {BandList(n, 1) : n \in 0..MaxBandList}

\* glob.glob over the comma separated patterns: any list of files, also empty
GlobResults == SeqsUpTo(ImagePaths, MaxImages)

\* --band_combination: the text split at ';' and then at ','; "" when absent
BandCombinationTexts ==
    { << >>,
      << <<"1", "2">> >>,
      << <<"2", "1">>, <<"1", "1">> >>,
      << <<"1", "2">>, <<"3">> >>,
      << <<"x", "2">> >>,
      << <<"1", "2", "3">> >> }

\* --output_path: a directory, a file name, or nothing
OutputPaths == {"", "out_dir", "out.tif"}

\* The Namespace with every option at its argparse default
DefaultArgs ==
    [ base_image |-> "a.tif", target_image |-> "b.tif",
      base_band |-> DefaultBand, target_band |-> DefaultBand,
      base_images |-> << >>, target_images |-> << >>,
      base_bands |-> << >>, target_bands |-> << >>,
      serial |-> FALSE, all |-> FALSE,
      input_img |-> "a.tif", band_number |-> 0, band_combination |-> << >>,
      output_path |-> Cwd,
      method |-> FREQUENCY_CORR,
      window_size |-> DefaultWindowSize, step |-> DefaultStep,
      grid |-> FALSE, show |-> FALSE, pixel_based |-> FALSE,
      vmin |-> -1, vmax |-> 1,
      mask_th |-> DefaultMaskTh, nb_iters |-> DefaultNbIters,
      search_range |-> << >> ]

\* The Namespace with every correlator option set by the user
CustomArgs ==
    [DefaultArgs EXCEPT !.window_size = <<32, 32, 32, 32>>, !.step = <<1, 1>>,
                        !.grid = TRUE, !.show = TRUE, !.vmin = 0, !.vmax = 2,
                        !.mask_th = 100, !.nb_iters = 1,
                        !.output_path = "out.tif"]

\* the correlator options of a batch or multiband run: all default, or all given
OptionProfiles == {DefaultArgs, CustomArgs}

\* cosicorr3d correlate ...
CorrelateArgs ==
    { [DefaultArgs EXCEPT !.method = m, !.step = st, !.grid = g,
                          !.pixel_based = px, !.mask_th = th,
                          !.nb_iters = it, !.search_range = sr] :
        m \in CORR_METHODS, st \in {DefaultStep, <<1, 1>>}, g \in BOOLEAN,
        px \in BOOLEAN, th \in {0, DefaultMaskTh, 100, 120},
        it \in {0, 1, DefaultNbIters}, sr \in {<< >>, <<2, 2>>} }

\* cosicorr3d batch_correlate ...
BatchArgs ==
    { [base EXCEPT !.base_images = bi, !.target_images = ti,
                          !.base_bands = bb, !.target_bands = tb,
                          !.serial = s, !.all = a,
                          !.method = m, !.search_range = sr] :
        base \in OptionProfiles,
        bi \in GlobResults, ti \in GlobResults,
        bb \in BaseBandLists, tb \in TargetBandLists,
        s \in BOOLEAN, a \in BOOLEAN,
        m \in CORR_METHODS, sr \in {<< >>, <<2, 2>>} }

\* cosicorr3d multi_band_correlation ...
MultibandArgs ==
    { [base EXCEPT !.band_number = n, !.band_combination = bc,
                          !.output_path = op,
                          !.method = m, !.search_range = sr, !.pixel_based = px] :
        base \in OptionProfiles,
        n \in 1..MaxRasterBands, bc \in BandCombinationTexts,
        op \in OutputPaths,
        m \in CORR_METHODS, sr \in {<< >>, <<2, 2>>}, px \in BOOLEAN }

----------------------------------------------------------------------------
\* The Correlation Engine as its callers see it (design document, 3, 4.5, 7)

\* window_size is 4 positive ints, step 2 positive ints
ValidWindowStep(params) ==
    /\ "window_size" \in DOMAIN params /\ "step" \in DOMAIN params
    /\ Len(params.window_size) = 4
    /\ \A k \in 1..4 : params.window_size[k] >= 1
    /\ Len(params.step) = 2
    /\ \A k \in 1..2 : params.step[k] >= 1

\* The Correlator Configuration of the data model: a method tag with that
\* method's parameter set, mask_threshold in (0,1], iteration_count >= 1,
\* search_range 2 ints
ValidConfiguration(cfg) ==
    /\ DOMAIN cfg = {"correlator_name", "correlator_params"}
    /\ ValidWindowStep(cfg.correlator_params)
    /\ \/ /\ cfg.correlator_name = FREQUENCY_CORR
          /\ {"mask_th", "nb_iters"} \subseteq DOMAIN cfg.correlator_params
          /\ cfg.correlator_params.mask_th > 0
          /\ cfg.correlator_params.mask_th <= 100
          /\ cfg.correlator_params.nb_iters >= 1
       \/ /\ cfg.correlator_name = SPATIAL_CORR
          /\ "search_range" \in DOMAIN cfg.correlator_params
          /\ Len(cfg.correlator_params.search_range) = 2

\* grid_mode of a call: pixel_based forces pixel-wise
GridMode(kw) == IF kw.pixel_based_correlation THEN "pixel-wise" ELSE "regular"

\* The outcomes of one call: a ConfigurationError before any grid-cell work,
\* an EmptyResult when the grid has no centre (depends on the images), or the
\* Displacement Field
Correlate(kw) ==
    IF ~ValidConfiguration(kw.corr_config)
    THEN { [status |-> "ConfigurationError", grid_mode |-> "none", grid_work |-> FALSE] }
    ELSE { [status |-> "ok", grid_mode |-> GridMode(kw), grid_work |-> TRUE],
           [status |-> "EmptyResult", grid_mode |-> GridMode(kw), grid_work |-> FALSE] }

----------------------------------------------------------------------------
\* correlate_func

\* corr_config with the frequency defaults in place of the user's mask_th, nb_iters
CorrConfigDefaultFrequency(a) ==
    IF a.method = FREQUENCY_CORR
    THEN [ correlator_name |-> FREQUENCY_CORR,
           correlator_params |-> [ window_size |-> a.window_size,
                                   step |-> a.step,
                                   grid |-> a.grid,
                                   mask_th |-> DefaultMaskTh,
                                   nb_iters |-> DefaultNbIters ] ]
    ELSE IF a.method = SPATIAL_CORR
    THEN [ correlator_name |-> SPATIAL_CORR,
           correlator_params |-> [ window_size |-> a.window_size,
                                   step |-> a.step,
                                   grid |-> a.grid,
                                   search_range |-> a.search_range ] ]
    ELSE << >>

\* corr_config with the spatial branch missing: the dictionary stays empty
CorrConfigNoSpatial(a) ==
    IF a.method = FREQUENCY_CORR
    THEN [ correlator_name |-> FREQUENCY_CORR,
           correlator_params |-> [ window_size |-> a.window_size,
                                   step |-> a.step,
                                   grid |-> a.grid,
                                   mask_th |-> a.mask_th,
                                   nb_iters |-> a.nb_iters ] ]
    ELSE << >>

\* the corr_config dictionary a Namespace is turned into
CorrConfig(a) ==
    IF a.method = FREQUENCY_CORR
    THEN [ correlator_name |-> FREQUENCY_CORR,
           correlator_params |-> [ window_size |-> a.window_size,
                                   step |-> a.step,
                                   grid |-> a.grid,
                                   mask_th |-> a.mask_th,
                                   nb_iters |-> a.nb_iters ] ]
    ELSE IF a.method = SPATIAL_CORR
    THEN [ correlator_name |-> SPATIAL_CORR,
           correlator_params |-> [ window_size |-> a.window_size,
                                   step |-> a.step,
                                   grid |-> a.grid,
                                   search_range |-> a.search_range ] ]
    ELSE << >>

\* correlate_func letting the grid flag switch pixel_based off
correlate_func_grid_first(a) ==
    [ base_image_path |-> a.base_image,
      target_image_path |-> a.target_image,
      base_band |-> a.base_band,
      target_band |-> a.target_band,
      output_corr_path |-> a.output_path,
      corr_config |-> CorrConfig(a),
      corr_show |-> a.show,
      pixel_based_correlation |-> (a.pixel_based /\ ~a.grid),
      vmin |-> a.vmin,
      vmax |-> a.vmax ]

\* the keyword arguments correlate_func calls Correlate with
correlate_func(a) ==
    [ base_image_path |-> a.base_image,
      target_image_path |-> a.target_image,
      base_band |-> a.base_band,
      target_band |-> a.target_band,
      output_corr_path |-> a.output_path,
      corr_config |-> CorrConfig(a),
      corr_show |-> a.show,
      pixel_based_correlation |-> a.pixel_based,
      vmin |-> a.vmin,
      vmax |-> a.vmax ]

\* the Namespace built with the parser's default step instead of args.step
NamespaceDefaultStep(a, base_image, target_image, base_band, target_band, output_path) ==
    [ base_image |-> base_image,
      target_image |-> target_image,
      base_band |-> base_band,
      target_band |-> target_band,
      output_path |-> output_path,
      method |-> a.method,
      window_size |-> a.window_size,
      step |-> DefaultStep,
      grid |-> a.grid,
      show |-> a.show,
      pixel_based |-> a.pixel_based,
      vmin |-> a.vmin,
      vmax |-> a.vmax,
      mask_th |-> a.mask_th,
      nb_iters |-> a.nb_iters,
      search_range |-> a.search_range ]

\* The argparse.Namespace batch and multiband build for each correlate_func call
Namespace(a, base_image, target_image, base_band, target_band, output_path) ==
    [ base_image |-> base_image,
      target_image |-> target_image,
      base_band |-> base_band,
      target_band |-> target_band,
      output_path |-> output_path,
      method |-> a.method,
      window_size |-> a.window_size,
      step |-> a.step,
      grid |-> a.grid,
      show |-> a.show,
      pixel_based |-> a.pixel_based,
      vmin |-> a.vmin,
      vmax |-> a.vmax,
      mask_th |-> a.mask_th,
      nb_iters |-> a.nb_iters,
      search_range |-> a.search_range ]

\* One correlate_func(ns) call with engine outcome res: the call is recorded;
\* an engine error is not caught and ends the handler, otherwise the handler
\* goes on at position next
Invoke(ns, res, next) ==
    /\ calls' = Append(calls, [ns |-> ns, kw |-> correlate_func(ns), res |-> res])
    /\ IF res.status = "ok"
       THEN pc' = next /\ raised' = raised
       ELSE pc' = "error" /\ raised' = [type |-> res.status, detail |-> << >>]

\* cosicorr3d correlate: args.func(args) with func = correlate_func
Correlation ==
    /\ cmd = "correlate" /\ pc = "start"
    /\ \E res \in Correlate(correlate_func(args)) : Invoke(args, res, "done")
    /\ UNCHANGED <<cmd, args, work, i>>
    /\ UNCHANGED engineVars

----------------------------------------------------------------------------
\* batch_correlate_func

\* args.base_bands if args.base_bands else [1] * len(base_images)
ResolveBands(bands, images) ==
    IF Len(bands) > 0 THEN bands ELSE [k \in 1..Len(images) |-> 1]

\* zip of two lists: as long as the shorter one
Zip(xs, ys) == [k \in 1..Min(Len(xs), Len(ys)) |-> <<xs[k], ys[k]>>]

\* itertools.product of two lists, the second index running fastest
Product(xs, ys) ==
    [k \in 1..(Len(xs) * Len(ys)) |->
        <<xs[((k - 1) \div Len(ys)) + 1], ys[((k - 1) % Len(ys)) + 1]>>]

\* the length test as it would reject only a shorter base list
SerialLengthMismatchOneSided(base_images, target_images) ==
    Len(base_images) < Len(target_images)

\* the serial mode's length test
SerialLengthMismatch(base_images, target_images) ==
    Len(base_images) # Len(target_images)

\* zip(base_images, target_images, base_bands, target_bands)
SerialWork(base_images, target_images, base_bands, target_bands) ==
    LET images == Zip(base_images, target_images)
        bands == Zip(base_bands, target_bands)
    IN [k \in 1..Min(Len(images), Len(bands)) |->
            <<images[k][1], images[k][2], bands[k][1], bands[k][2]>>]

\* itertools.product(zip(base_images, base_bands), zip(target_images, target_bands))
AllWork(base_images, target_images, base_bands, target_bands) ==
    LET pairs == Product(Zip(base_images, base_bands), Zip(target_images, target_bands))
    IN [k \in 1..Len(pairs) |->
            <<pairs[k][1][1], pairs[k][2][1], pairs[k][1][2], pairs[k][2][2]>>]

\* the branches tested in the other order: --all wins over --serial
PairingPolicyAllFirst(serial, all) ==
    IF all THEN "all" ELSE IF serial THEN "serial" ELSE "none"

\* if args.serial: ... elif args.all: ...: the loop the handler runs
PairingPolicy(serial, all) ==
    IF serial THEN "serial" ELSE IF all THEN "all" ELSE "none"

\* batch_correlate_func up to its for loop: band defaults, pairing policy,
\* the serial length test
BatchStart ==
    /\ cmd = "batch_correlate" /\ pc = "start"
    /\ LET base_images == args.base_images
           target_images == args.target_images
           base_bands == ResolveBands(args.base_bands, base_images)
           target_bands == ResolveBands(args.target_bands, target_images)
           all == IF ~args.serial /\ ~args.all THEN TRUE ELSE args.all
       IN /\ args' = [args EXCEPT !.all = all]
          /\ IF PairingPolicy(args.serial, all) = "serial"
             THEN IF SerialLengthMismatch(base_images, target_images)
                  THEN /\ pc' = "error"
                       /\ raised' = [type |-> "ValueError",
                                     detail |-> <<Len(base_images), Len(target_images)>>]
                       /\ work' = << >>
                  ELSE /\ pc' = "serial"
                       /\ raised' = raised
                       /\ work' = SerialWork(base_images, target_images,
                                             base_bands, target_bands)
             ELSE IF PairingPolicy(args.serial, all) = "all"
                  THEN /\ pc' = "all"
                       /\ raised' = raised
                       /\ work' = AllWork(base_images, target_images,
                                          base_bands, target_bands)
                  ELSE /\ pc' = "done"
                       /\ raised' = raised
                       /\ work' = << >>
    /\ i' = 1
    /\ UNCHANGED <<cmd, calls>>
    /\ UNCHANGED engineVars

\* one pass of the serial for loop
SerialIteration ==
    /\ cmd = "batch_correlate" /\ pc = "serial" /\ i <= Len(work)
    /\ LET ns == Namespace(args, work[i][1], work[i][2], work[i][3], work[i][4],
                           args.output_path)
       IN \E res \in Correlate(correlate_func(ns)) : Invoke(ns, res, "serial")
    /\ i' = i + 1
    /\ UNCHANGED <<cmd, args, work>>
    /\ UNCHANGED engineVars

\* one pass of the all-pairs for loop
AllIteration ==
    /\ cmd = "batch_correlate" /\ pc = "all" /\ i <= Len(work)
    /\ LET ns == Namespace(args, work[i][1], work[i][2], work[i][3], work[i][4],
                           args.output_path)
       IN \E res \in Correlate(correlate_func(ns)) : Invoke(ns, res, "all")
    /\ i' = i + 1
    /\ UNCHANGED <<cmd, args, work>>
    /\ UNCHANGED engineVars

\* the for loop is exhausted: batch_correlate_func returns
BatchReturn ==
    /\ cmd = "batch_correlate" /\ pc \in {"serial", "all"} /\ i > Len(work)
    /\ pc' = "done"
    /\ UNCHANGED <<cmd, args, work, i, calls, raised>>
    /\ UNCHANGED engineVars

----------------------------------------------------------------------------
\* multiband_correlate_func

\* int(text): the literals the inputs use; anything else raises ValueError
IsIntLiteral(text) == text \in {"1", "2", "3", "4"}
ParseInt(text) ==
    CASE text = "1" -> 1 [] text = "2" -> 2 [] text = "3" -> 3 [] text = "4" -> 4

\* os.path.splitext(os.path.basename(input_image))[0]
ImageName(path) == CASE path = "a.tif" -> "a" [] path = "b.tif" -> "b"

\* os.path.join(directory, filename)
PathJoin(directory, filename) == directory \o "/" \o filename

\* [tuple(map(int, comb.split(','))) for comb in args.band_combination.split(';')]
ParseBandCombination(text) ==
    [k \in 1..Len(text) |-> [j \in 1..Len(text[k]) |-> ParseInt(text[k][j])]]

\* the band pairs with the inner range starting at i instead of i + 1
AllBandPairsFromSelf(num_bands) ==
    SelectSeq([k \in 1..(num_bands * num_bands) |->
                  <<((k - 1) \div num_bands) + 1, ((k - 1) % num_bands) + 1>>],
              LAMBDA p : p[2] >= p[1])

\* [(i, j) for i in range(1, num_bands + 1) for j in range(i + 1, num_bands + 1)]
AllBandPairs(num_bands) ==
    SelectSeq([k \in 1..(num_bands * num_bands) |->
                  <<((k - 1) \div num_bands) + 1, ((k - 1) % num_bands) + 1>>],
              LAMBDA p : p[2] >= p[1] + 1)

\* the loop body without its output path test
OutputPathUnchecked(output_path) == TRUE

\* the output path test of the loop body
OutputPathUsable(output_path) == output_path = "" \/ isdir(output_path)

\* corr_<image>_bands_<b>_<t>.tif under the output directory or the cwd
BandOutputPath(output_path, input_image_name, base_band, target_band) ==
    PathJoin(IF output_path # "" THEN output_path ELSE Cwd,
             "corr_" \o input_image_name \o "_bands_" \o ToString(base_band)
                 \o "_" \o ToString(target_band) \o ".tif")

\* multiband_correlate_func up to its for loop: band count test, band combinations
MultibandStart ==
    /\ cmd = "multi_band_correlation" /\ pc = "start"
    /\ LET num_bands == args.band_number
       IN IF num_bands < 2
          THEN /\ pc' = "error"
               /\ raised' = [type |-> "ValueError", detail |-> <<num_bands>>]
               /\ work' = << >>
          ELSE IF Len(args.band_combination) > 0
          THEN IF \A k \in 1..Len(args.band_combination) :
                     \A j \in 1..Len(args.band_combination[k]) :
                        IsIntLiteral(args.band_combination[k][j])
               THEN /\ pc' = "bands"
                    /\ raised' = raised
                    /\ work' = ParseBandCombination(args.band_combination)
               ELSE /\ pc' = "error"
                    /\ raised' = [type |-> "ValueError", detail |-> << >>]
                    /\ work' = << >>
          ELSE /\ pc' = "bands"
               /\ raised' = raised
               /\ work' = AllBandPairs(num_bands)
    /\ i' = 1
    /\ UNCHANGED <<cmd, args, calls>>
    /\ UNCHANGED engineVars

\* one pass of the band combination for loop
MultibandIteration ==
    /\ cmd = "multi_band_correlation" /\ pc = "bands" /\ i <= Len(work)
    /\ IF Len(work[i]) # 2
       THEN /\ pc' = "error"
            /\ raised' = [type |-> "ValueError", detail |-> <<Len(work[i])>>]
            /\ calls' = calls
       ELSE IF ~OutputPathUsable(args.output_path)
       THEN /\ pc' = "error"
            /\ raised' = [type |-> "ValueError", detail |-> << >>]
            /\ calls' = calls
       ELSE LET ns == Namespace(args, args.input_img, args.input_img,
                                work[i][1], work[i][2],
                                BandOutputPath(args.output_path,
                                               ImageName(args.input_img),
                                               work[i][1], work[i][2]))
            IN \E res \in Correlate(correlate_func(ns)) : Invoke(ns, res, "bands")
    /\ i' = i + 1
    /\ UNCHANGED <<cmd, args, work>>
    /\ UNCHANGED engineVars

\* the for loop is exhausted: multiband_correlate_func returns
MultibandReturn ==
    /\ cmd = "multi_band_correlation" /\ pc = "bands" /\ i > Len(work)
    /\ pc' = "done"
    /\ UNCHANGED <<cmd, args, work, i, calls, raised>>
    /\ UNCHANGED engineVars

----------------------------------------------------------------------------
\* The command line: argparse picks the handler and its Namespace

EngineIdle ==
    /\ epc = "idle"
    /\ failing = {}
    /\ assigned = [w \in 1..NumWorkers |-> {}]
    /\ evaluated = [w \in 1..NumWorkers |-> {}]
    /\ joined = {}
    /\ field = << >>
    /\ writer = [c \in 1..NumCells |-> {}]
    /\ peeked = [w \in 1..NumWorkers |-> {}]
    /\ returned = << >>

Init ==
    /\ \/ cmd = "correlate" /\ args \in CorrelateArgs
       \/ cmd = "batch_correlate" /\ args \in BatchArgs
       \/ cmd = "multi_band_correlation" /\ args \in MultibandArgs
    /\ pc = "start"
    /\ work = << >>
    /\ i = 1
    /\ calls = << >>
    /\ raised = NoError
    /\ EngineIdle

Next ==
    \/ Correlation
    \/ BatchStart
    \/ SerialIteration
    \/ AllIteration
    \/ BatchReturn
    \/ MultibandStart
    \/ MultibandIteration
    \/ MultibandReturn

Spec == Init /\ [][Next]_vars

----------------------------------------------------------------------------
\* One Correlation Engine call, cell by cell (design document, 4.5 and 5):
\* the grid is built once, the output slots are pre-sized, the grid index
\* range is partitioned across workers, every worker evaluates its cells,
\* and the Displacement Field is returned after the join.

Cells == 1..NumCells
Workers == 1..NumWorkers

\* the Correlation Result Cell values
Unset == [tag |-> "unset", of |-> 0]
Sentinel == [tag |-> "invalid", of |-> 0]
\* (dx, dy, score) computed from the base and target windows of the cell at c
Displacement(c) == [tag |-> "result", of |-> c]

\* the grid index range 1..n cut into k contiguous chunks: the cells of worker w
Partition(n, k, w) ==
    LET chunk == (n + k - 1) \div k
    IN {c \in 1..n : (w - 1) * chunk < c /\ c <= w * chunk}

\* evaluation seeded with the previous cell's result when that is already there
EvaluateCellSeeded(c, fails, slots) ==
    [ reads |-> IF c > 1 THEN {c - 1} ELSE {},
      value |-> IF c \in fails THEN Sentinel
                ELSE IF c > 1 /\ slots[c - 1].tag = "result"
                     THEN [tag |-> "result", of |-> slots[c - 1].of]
                     ELSE Displacement(c) ]

\* evaluation that skips a failing cell without writing the sentinel
EvaluateCellSkipping(c, fails, slots) ==
    [ reads |-> {},
      value |-> IF c \in fails THEN slots[c] ELSE Displacement(c) ]

\* Evaluation of the cell at c: the output slots it reads (none: a cell reads
\* only the read-only bands) and the value for its own slot; a failing cell
\* (window out of bounds, zero variance) yields the sentinel
EvaluateCell(c, fails, slots) ==
    [ reads |-> {},
      value |-> IF c \in fails THEN Sentinel ELSE Displacement(c) ]

\* the grid is built, the slots are pre-sized and the index range is partitioned
Fork ==
    /\ epc = "idle"
    /\ epc' = "forked"
    /\ field' = [c \in Cells |-> Unset]
    /\ assigned' = [w \in Workers |-> Partition(NumCells, NumWorkers, w)]
    /\ UNCHANGED <<failing, evaluated, joined, writer, peeked, returned>>
    /\ UNCHANGED cliVars

\* worker w evaluates the next cell of its share and writes that cell's slot
WorkerEvaluate(w) ==
    /\ epc = "forked" /\ w \notin joined
    /\ assigned[w] \ evaluated[w] # {}
    /\ LET c == CHOOSE x \in assigned[w] \ evaluated[w] :
                    \A y \in assigned[w] \ evaluated[w] : x <= y
           r == EvaluateCell(c, failing, field)
       IN /\ field' = [field EXCEPT ![c] = r.value]
          /\ writer' = [writer EXCEPT ![c] = @ \cup {w}]
          /\ peeked' = [peeked EXCEPT ![w] = @ \cup r.reads]
          /\ evaluated' = [evaluated EXCEPT ![w] = @ \cup {c}]
    /\ UNCHANGED <<epc, failing, assigned, joined, returned>>
    /\ UNCHANGED cliVars

\* worker w has evaluated its whole share and joins
WorkerJoin(w) ==
    /\ epc = "forked" /\ w \notin joined
    /\ assigned[w] \ evaluated[w] = {}
    /\ joined' = joined \cup {w}
    /\ UNCHANGED <<epc, failing, assigned, evaluated, field, writer, peeked, returned>>
    /\ UNCHANGED cliVars

\* the join is complete: the assembled Displacement Field is returned
Return ==
    /\ epc = "forked" /\ joined = Workers
    /\ epc' = "returned"
    /\ returned' = field
    /\ UNCHANGED <<failing, assigned, evaluated, joined, field, writer, peeked>>
    /\ UNCHANGED cliVars

\* a call on a grid of NumCells centres, any subset of which fails
EngineInit ==
    /\ cmd = "correlate" /\ args = DefaultArgs /\ pc = "start"
    /\ work = << >> /\ i = 1 /\ calls = << >> /\ raised = NoError
    /\ epc = "idle"
    /\ failing \in SUBSET Cells
    /\ assigned = [w \in Workers |-> {}]
    /\ evaluated = [w \in Workers |-> {}]
    /\ joined = {}
    /\ field = << >>
    /\ writer = [c \in Cells |-> {}]
    /\ peeked = [w \in Workers |-> {}]
    /\ returned = << >>

EngineNext ==
    \/ Fork
    \/ \E w \in Workers : WorkerEvaluate(w)
    \/ \E w \in Workers : WorkerJoin(w)
    \/ Return

EngineSpec == EngineInit /\ [][EngineNext]_vars

----------------------------------------------------------------------------
\* Properties of the command line handlers (checked under Spec)

IsBatch == cmd = "batch_correlate"
IsMultiband == cmd = "multi_band_correlation"

\* C1: in all-pairs mode (--all, or neither --serial nor --all) a batch run
\* that returns has invoked the correlation exactly once for every pair of a
\* resolved base image and a resolved target image, len(base_images) *
\* len(target_images) calls, whatever band lists were given.
C1_AllPairsCallsEveryPair ==
    (IsBatch /\ pc = "done" /\ ~args.serial) =>
        LET nb == Len(args.base_images)
            nt == Len(args.target_images)
        IN /\ Len(calls) = nb * nt
           /\ \A b \in 1..nb : \A t \in 1..nt :
                 /\ calls[(b - 1) * nt + t].kw.base_image_path = args.base_images[b]
                 /\ calls[(b - 1) * nt + t].kw.target_image_path = args.target_images[t]

\* C2: in serial mode with n base and n target images a batch run that returns
\* has invoked the correlation exactly n times, the i-th call pairing
\* base_images[i] with target_images[i] and base_bands[i] with target_bands[i]
\* (band 1 where no band list was given).
C2_SerialCallsEveryIndex ==
    (IsBatch /\ pc = "done" /\ args.serial
        /\ Len(args.base_images) = Len(args.target_images)) =>
        /\ Len(calls) = Len(args.base_images)
        /\ \A k \in 1..Len(calls) :
              /\ calls[k].kw.base_image_path = args.base_images[k]
              /\ calls[k].kw.target_image_path = args.target_images[k]
              /\ calls[k].kw.base_band =
                    (IF Len(args.base_bands) > 0 THEN args.base_bands[k] ELSE 1)
              /\ calls[k].kw.target_band =
                    (IF Len(args.target_bands) > 0 THEN args.target_bands[k] ELSE 1)

\* C3: in serial mode with base and target lists of different lengths the
\* batch run never makes a correlation call and can only end in a ValueError
\* that names both counts.
C3_SerialMismatchRaisesFirst ==
    (IsBatch /\ args.serial /\ Len(args.base_images) # Len(args.target_images)) =>
        /\ calls = << >>
        /\ pc \in {"start", "error"}
        /\ pc = "error" =>
              raised = [type |-> "ValueError",
                        detail |-> <<Len(args.base_images), Len(args.target_images)>>]

C3_Witness ==
    /\ IsBatch /\ args.serial /\ pc = "error"
    /\ Len(args.base_images) > Len(args.target_images)
    /\ raised.type = "ValueError"

\* the arguments of a correlate_func call that make an invalid configuration
InvalidArguments(ns) ==
    \/ ns.method = SPATIAL_CORR /\ Len(ns.search_range) = 0
    \/ ns.method = FREQUENCY_CORR /\ (ns.mask_th <= 0 \/ ns.mask_th > 100)
    \/ ns.method = FREQUENCY_CORR /\ ns.nb_iters < 1

C5_PixelBasedForcesPixelWise ==
    \A k \in 1..Len(calls) :
        (calls[k].ns.pixel_based /\ calls[k].res.status # "ConfigurationError") =>
            calls[k].res.grid_mode = "pixel-wise"

C5_Witness ==
    /\ cmd = "correlate" /\ Len(calls) = 1
    /\ calls[1].ns.pixel_based /\ calls[1].ns.grid /\ calls[1].ns.step = DefaultStep
    /\ calls[1].res.status = "ok"
    /\ calls[1].res.grid_mode = "pixel-wise"

\* C6: the configuration of every correlation call is a tagged variant: its
\* correlator_name is the selected method and its parameters are exactly
\* window_size, step, grid, mask_th, nb_iters for the frequency method and
\* exactly window_size, step, grid, search_range for the spatial method.
C6_ConfigurationIsTaggedVariant ==
    \A k \in 1..Len(calls) :
        LET cfg == calls[k].kw.corr_config
        IN /\ DOMAIN cfg = {"correlator_name", "correlator_params"}
           /\ cfg.correlator_name = calls[k].ns.method
           /\ cfg.correlator_name = FREQUENCY_CORR =>
                 DOMAIN cfg.correlator_params =
                    {"window_size", "step", "grid", "mask_th", "nb_iters"}
           /\ cfg.correlator_name = SPATIAL_CORR =>
                 DOMAIN cfg.correlator_params =
                    {"window_size", "step", "grid", "search_range"}
           /\ cfg.correlator_name \in CORR_METHODS

C6_Witness ==
    /\ IsBatch /\ Len(calls) = 2
    /\ calls[2].ns.method = SPATIAL_CORR
    /\ calls[2].kw.corr_config.correlator_name = SPATIAL_CORR

\* C7: a multiband run without --band_combination on an image of n >= 2 bands
\* calls the correlation on band pairs (i, j) with 1 <= i < j <= n only, in
\* strictly ascending lexicographic order, always with the input image as base
\* and target, and has made n*(n-1)/2 calls when it returns: every pair once,
\* no band with itself, no pair twice.
C7_MultibandCallsEveryBandPair ==
    (IsMultiband /\ Len(args.band_combination) = 0 /\ args.band_number >= 2) =>
        /\ \A k \in 1..Len(calls) :
              /\ calls[k].kw.base_image_path = args.input_img
              /\ calls[k].kw.target_image_path = args.input_img
              /\ 1 <= calls[k].kw.base_band
              /\ calls[k].kw.base_band < calls[k].kw.target_band
              /\ calls[k].kw.target_band <= args.band_number
        /\ \A k \in 1..(Len(calls) - 1) :
              \/ calls[k].kw.base_band < calls[k + 1].kw.base_band
              \/ /\ calls[k].kw.base_band = calls[k + 1].kw.base_band
                 /\ calls[k].kw.target_band < calls[k + 1].kw.target_band
        /\ pc = "done" =>
              Len(calls) = (args.band_number * (args.band_number - 1)) \div 2

C7_Witness ==
    /\ IsMultiband /\ Len(args.band_combination) = 0 /\ args.band_number = 3
    /\ pc = "done" /\ Len(calls) = 3

\* C8: a multiband run on an image with fewer than two bands, or with an
\* output_path that is given and is no existing directory, makes no
\* correlation call: it does not return normally, and the error it ends in is
\* a ValueError raised before the first call.
C8_MultibandAbortsBeforeAnyCall ==
    (IsMultiband /\ (\/ args.band_number < 2
                     \/ args.output_path # "" /\ args.output_path \notin Directories)) =>
        /\ calls = << >>
        /\ pc \in {"start", "bands", "error"}
        /\ pc = "bands" => i = 1
        /\ pc = "error" => raised.type = "ValueError"

C8_Witness ==
    /\ IsMultiband /\ args.band_number >= 2 /\ Len(args.band_combination) = 0
    /\ args.output_path = "out.tif"
    /\ pc = "error" /\ raised.type = "ValueError" /\ calls = << >>

\* C11: a batch run follows exactly one pairing policy: from its start it
\* enters the serial loop (or the serial length error) when --serial is set,
\* with or without --all, and the all-pairs loop otherwise (--all alone, or
\* neither flag); it never leaves one loop for the other, and every
\* correlation call is made by the loop of that policy.
C11_OnePairingPolicy ==
    [][IsBatch =>
        /\ (pc = "start" /\ args.serial) => pc' \in {"serial", "error"}
        /\ (pc = "start" /\ ~args.serial) => pc' = "all"
        /\ pc = "serial" => pc' \in {"serial", "done", "error"}
        /\ pc = "all" => pc' \in {"all", "done", "error"}
        /\ pc \in {"done", "error"} => pc' = pc
        /\ calls' # calls => pc = (IF args.serial THEN "serial" ELSE "all")]_vars

C11_Witness ==
    /\ IsBatch /\ args.serial /\ args.all /\ pc = "done"
    /\ Len(calls) = 2
    /\ calls[1].kw.base_image_path = args.base_images[1]
    /\ calls[2].kw.base_image_path = args.base_images[2]

\* C12: every correlation call of a batch or multiband run receives the
\* run's own method, window_size, step, grid, pixel_based, mask_th, nb_iters
\* and search_range (and show, vmin, vmax), in the Namespace and in the
\* configuration built from it, at whatever point of the run it is made; in
\* a batch run the output path is the run's as well. Only the image paths,
\* the bands and the multiband output path vary between calls.
C12_ConfigurationUnchangedAcrossCalls ==
    (IsBatch \/ IsMultiband) =>
        \A k \in 1..Len(calls) :
            /\ calls[k].ns.method = args.method
            /\ calls[k].ns.window_size = args.window_size
            /\ calls[k].ns.step = args.step
            /\ calls[k].ns.grid = args.grid
            /\ calls[k].ns.pixel_based = args.pixel_based
            /\ calls[k].ns.mask_th = args.mask_th
            /\ calls[k].ns.nb_iters = args.nb_iters
            /\ calls[k].ns.search_range = args.search_range
            /\ calls[k].ns.show = args.show
            /\ calls[k].ns.vmin = args.vmin
            /\ calls[k].ns.vmax = args.vmax
            /\ IsBatch => calls[k].ns.output_path = args.output_path
            /\ calls[k].kw.corr_config = calls[1].kw.corr_config
            /\ calls[k].kw.corr_config.correlator_name = args.method
            /\ calls[k].kw.corr_config.correlator_params.window_size = args.window_size
            /\ calls[k].kw.corr_config.correlator_params.step = args.step
            /\ calls[k].kw.corr_config.correlator_params.grid = args.grid
            /\ calls[k].kw.pixel_based_correlation = args.pixel_based
            /\ args.method = FREQUENCY_CORR =>
                  /\ calls[k].kw.corr_config.correlator_params.mask_th = args.mask_th
                  /\ calls[k].kw.corr_config.correlator_params.nb_iters = args.nb_iters
            /\ args.method = SPATIAL_CORR =>
                  calls[k].kw.corr_config.correlator_params.search_range
                      = args.search_range

C12_Witness ==
    /\ IsBatch /\ pc = "done" /\ Len(calls) = 2
    /\ args.step # DefaultStep /\ args.mask_th # DefaultMaskTh
    /\ calls[1].ns.target_image # calls[2].ns.target_image
    /\ calls[1].ns.target_band # calls[2].ns.target_band
    /\ calls[2].ns.step = args.step

\* two calls are for different inputs: another image pair or another band pair
DifferentInputs(x, y) ==
    \/ x.base_image_path # y.base_image_path
    \/ x.target_image_path # y.target_image_path
    \/ x.base_band # y.base_band
    \/ x.target_band # y.target_band

\* the multiband half of C13: the call for band pair (b, t) is given
\* corr_<image name>_bands_<b>_<t>.tif under the output directory (the current
\* directory when none is given), and calls for different band pairs are
\* given different paths.
MultibandOutputPathsDistinct ==
    IsMultiband =>
        /\ \A k \in 1..Len(calls) :
              \E dir \in Directories, b \in 1..4, t \in 1..4 :
                 /\ dir = (IF args.output_path = "" THEN Cwd ELSE args.output_path)
                 /\ b = calls[k].kw.base_band /\ t = calls[k].kw.target_band
                 /\ calls[k].kw.output_corr_path =
                       dir \o "/corr_a_bands_" \o ToString(b) \o "_" \o ToString(t) \o ".tif"
        /\ \A j \in 1..Len(calls) : \A k \in 1..Len(calls) :
              DifferentInputs(calls[j].kw, calls[k].kw) =>
                 calls[j].kw.output_corr_path # calls[k].kw.output_corr_path

\* C13: within one batch or multiband run, two correlation calls for
\* different (base, target) inputs are never given the same output path; in
\* multiband mode the path is corr_<image name>_bands_<b>_<t>.tif under the
\* output directory.
C13_OutputPathsDistinct ==
    /\ MultibandOutputPathsDistinct
    /\ (IsBatch \/ IsMultiband) =>
          \A j \in 1..Len(calls) : \A k \in 1..Len(calls) :
             DifferentInputs(calls[j].kw, calls[k].kw) =>
                calls[j].kw.output_corr_path # calls[k].kw.output_corr_path

----------------------------------------------------------------------------
\* Properties of one engine call (checked under EngineSpec)

\* the field the inputs alone determine
ExpectedField == [c \in Cells |-> IF c \in failing THEN Sentinel ELSE Displacement(c)]

====
